---- MODULE Spec2Model ----
(***************************************************************************)
(* A model of src/index.js: the AATX tracking-plan validation action.      *)
(*                                                                         *)
(* run() reads the action inputs, POSTs one validation request, reports    *)
(* the result (log lines and outputs), optionally publishes a pull-request *)
(* review (addPrReviewComments) and finally applies fail-on-invalid.       *)
(*                                                                         *)
(* JavaScript values are encoded as follows.  An object is a record whose  *)
(* absent fields are absent from its DOMAIN (Has).  A string that the code *)
(* builds by concatenation is a tuple of its parts.  Output values are the *)
(* strings core.setOutput writes.                                          *)
(***************************************************************************)
EXTENDS Integers, Sequences, FiniteSets, TLC

VARIABLES
    pc,             \* position of run(): inputs, post, report, review, decide, done
    inputs,         \* the action inputs and the event context of this run
    response,       \* what axios.post produced (line 51)
    token,          \* process.env.GITHUB_TOKEN as read at line 179
    log,            \* core.info / core.warning / core.error lines, in order
    outputs,        \* values given to core.setOutput
    calls,          \* outbound network calls, in order
    reviewComments, \* the list built by addPrReviewComments
    review,         \* parameters of the createReview calls
    failed          \* messages given to core.setFailed, in order

vars == <<pc, inputs, response, token, log, outputs, calls, reviewComments, review, failed>>

(***************************************************************************)
(* Bounds of the explored inputs.                                          *)
(***************************************************************************)
MaxEvents == 3      \* longest events list of a validation result
MaxCount == 1       \* largest count in a result summary

(***************************************************************************)
(* Records with optional fields.                                           *)
(***************************************************************************)
NoFields == [f \in {} |-> f]
Has(r, f) == f \in DOMAIN r
Field(f, S) == {f :> v : v \in S}
Optional(f, S) == {NoFields} \cup Field(f, S)
Merge(A, B) == {a @@ b : a \in A, b \in B}

RECURSIVE FlatMap(_, _, _)
\* concatenation of Op(s[i], i) for i = from..Len(s) (a forEach that emits lines)
FlatMap(Op(_, _), s, from) ==
    IF from > Len(s) THEN <<>> ELSE Op(s[from], from) \o FlatMap(Op, s, from + 1)

Map(Op(_), s) == [i \in 1..Len(s) |-> Op(s[i])]

RECURSIVE trim(_)
\* String.prototype.trim on a snippet held as a tuple of tokens, " " being white space
trim(code) ==
    IF code = <<>> THEN <<>>
    ELSE IF Head(code) = " " THEN trim(Tail(code))
    ELSE IF code[Len(code)] = " " THEN trim(SubSeq(code, 1, Len(code) - 1))
    ELSE code

(***************************************************************************)
(* The inputs of a run: the workflow's `with:` values as raw strings and   *)
(* whether the triggering event carries a pull request.                    *)
(***************************************************************************)
Inputs ==
    [apiKey : {"", "secret"}, trackingPlanId : {"", "plan-1"},
     apiUrl : {"https://api.example"},
     holistic : {"false", "maybe"}, delta : {"true"}, autoUpdate : {"false"},
     overwrite : {"False"},
     comment : {"true", "false", ""}, failOnInvalid : {"TRUE", "false", "yes"},
     pull_request : BOOLEAN]

\* core.getBooleanInput accepts exactly the YAML 1.2 core-schema spellings
trueValue == {"true", "True", "TRUE"}
falseValue == {"false", "False", "FALSE"}
IsBoolean(raw) == raw \in trueValue \cup falseValue
getBooleanInput(raw) == raw \in trueValue

\* lines 8-16 with getInput in place of getBooleanInput: no flag is parsed
InputErrorRequiredOnly(in) ==
    IF in.apiKey = "" THEN "Input required and not supplied: api-key"
    ELSE IF in.trackingPlanId = "" THEN "Input required and not supplied: tracking-plan-id"
    ELSE ""

\* the first input whose read throws (lines 8-16), "" when none does
InputError(in) ==
    IF in.apiKey = "" THEN "Input required and not supplied: api-key"
    ELSE IF in.trackingPlanId = "" THEN "Input required and not supplied: tracking-plan-id"
    ELSE IF ~IsBoolean(in.holistic) THEN "Input does not meet YAML 1.2 Core Schema: holistic"
    ELSE IF ~IsBoolean(in.delta) THEN "Input does not meet YAML 1.2 Core Schema: delta"
    ELSE IF ~IsBoolean(in.autoUpdate) THEN "Input does not meet YAML 1.2 Core Schema: auto-update"
    ELSE IF ~IsBoolean(in.overwrite) THEN "Input does not meet YAML 1.2 Core Schema: overwrite"
    ELSE IF ~IsBoolean(in.comment) THEN "Input does not meet YAML 1.2 Core Schema: comment"
    ELSE IF ~IsBoolean(in.failOnInvalid) THEN "Input does not meet YAML 1.2 Core Schema: fail-on-invalid"
    ELSE ""

comment == getBooleanInput(inputs.comment)
failOnInvalid == getBooleanInput(inputs.failOnInvalid)

prDetails ==
    IF inputs.pull_request THEN [prNumber |-> 7, headSha |-> "head", baseSha |-> "base"]
    ELSE NoFields

validationRequest ==
    [repositoryUrl |-> "https://github.com/owner/repo",
     trackingPlanId |-> inputs.trackingPlanId,
     options |-> [holistic |-> getBooleanInput(inputs.holistic),
                  delta |-> getBooleanInput(inputs.delta),
                  autoUpdateTrackingPlan |-> getBooleanInput(inputs.autoUpdate),
                  overwriteExisting |-> getBooleanInput(inputs.overwrite),
                  comment |-> comment],
     prDetails |-> prDetails]

(***************************************************************************)
(* The validation results the service may return.                          *)
(***************************************************************************)
L1 == [path |-> "a.js", line |-> 10, code |-> <<" ", "track('x')", " ">>]
L2 == [path |-> "b.js", line |-> 20]

EventNames == <<"signup", "login", "purchase", "logout", "search", "share">>

\* an element of events that is null instead of an event object
NullEvent == [null |-> TRUE]

\* the shapes an event takes (its name is given by its place in the list)
EventShapes ==
    { [status |-> "invalid", message |-> "wrong type", implementation |-> <<L1, L2>>,
       properties |-> <<"plan", "price">>],
      [status |-> "invalid"],
      [status |-> "new", implementation |-> <<L2>>],
      [status |-> "new", implementation |-> <<>>, properties |-> <<>>],
      [status |-> "missing", message |-> "not found", properties |-> <<"id">>],
      [status |-> "valid", implementation |-> <<L1>>] }

Named(shapes) == [i \in 1..Len(shapes) |-> ("name" :> EventNames[i]) @@ shapes[i]]

EventLists == {Named(s) : s \in UNION {[1..n -> EventShapes] : n \in 0..MaxEvents}}

Counts == 0..MaxCount

\* every summary object: each of the five counts present or absent
Summaries ==
    Merge(Optional("totalEvents", Counts),
    Merge(Optional("validEvents", Counts),
    Merge(Optional("invalidEvents", Counts),
    Merge(Optional("missingEvents", Counts), Optional("newEvents", Counts)))))

Object == Field("js", {"object"})

\* results that vary the control flow: every field present or absent, an events
\* list with a null element, metadata
FlowResults ==
    Merge(Object,
    Merge(Optional("valid", BOOLEAN),
    Merge(Optional("trackingPlanUpdated", BOOLEAN),
    Merge(Optional("summary", {[invalidEvents |-> 1, missingEvents |-> 0, totalEvents |-> 1]}),
    Merge(Optional("events", {<<>>, <<NullEvent>>, Named(<<[status |-> "invalid", implementation |-> <<L1>>]>>)}),
          Optional("metadata", {[validationDuration |-> 12, agentVersion |-> "1.0"]}))))))

\* results that vary the summary
SummaryResults ==
    Merge(Object, Merge(Field("valid", {TRUE}), Field("summary", Summaries)))

\* results that vary the events list
EventResults ==
    Merge(Object,
    Merge(Field("valid", {FALSE}),
    Merge(Optional("summary", [invalidEvents : Counts, missingEvents : Counts]),
          Field("events", EventLists))))

\* bodies that are not objects with fields: null, a string (empty or not), a
\* number, an array
OtherBodies == {[js |-> "null"], [js |-> "string", length |-> 0],
                [js |-> "string", length |-> 4], [js |-> "number"], [js |-> "array"]}

Bodies == FlowResults \cup SummaryResults \cup EventResults \cup OtherBodies

NoResponse == [outcome |-> "pending"]

\* axios.post resolves with a 2xx response, or rejects with or without a response
Responses ==
    {[outcome |-> "resolved", status |-> 200, data |-> b] : b \in Bodies}
    \cup {[outcome |-> "rejected", status |-> 500, data |-> [js |-> "object", error |-> "bad request"]],
          [outcome |-> "rejected"]}

result == response.data


(***************************************************************************)
(* JavaScript operators the code applies to the result.                    *)
(***************************************************************************)
\* typeof: null and arrays are objects
typeof(v) == IF v.js \in {"null", "array", "object"} THEN "object" ELSE v.js

\* !v is false for objects, arrays, non-empty strings and the numbers returned here
Truthy(v) == ~(v.js = "null" \/ (v.js = "string" /\ v.length = 0))

\* line 62 without its null test, and without its typeof test
InvalidResponseFormatTypeofOnly(v) == typeof(v) # "object"
InvalidResponseFormatFalsyOnly(v) == ~Truthy(v)

\* the test of line 62
InvalidResponseFormat(v) == ~Truthy(v) \/ typeof(v) # "object"

\* r.f ? ... : ... and !r.f for a boolean field that may be absent
IsTrue(r, f) == Has(r, f) /\ r[f]

\* result.summary?.f || 0
SummaryCount(r, f) ==
    IF Has(r, "summary") /\ Has(r.summary, f) /\ r.summary[f] # 0 THEN r.summary[f] ELSE 0

\* result.events?.filter(e => e.status === status) || []
filter(r, status) ==
    IF Has(r, "events") THEN SelectSeq(r.events, LAMBDA e : Has(e, "status") /\ e.status = status)
    ELSE <<>>

\* reading e.status of a null element throws a TypeError (lines 79, 101, 116)
FilterThrows(r) == Has(r, "events") /\ \E i \in 1..Len(r.events) : r.events[i] = NullEvent

\* event.implementation && event.implementation.length > 0
HasLocation(event) == Has(event, "implementation") /\ Len(event.implementation) > 0

\* event.properties && Object.keys(event.properties).length > 0
HasProperties(event) == Has(event, "properties") /\ Len(event.properties) > 0

names(events) == Map(LAMBDA e : e.name, events)

\* JSON.stringify of a boolean
stringify(b) == IF b THEN "true" ELSE "false"

\* what core.setOutput writes for a boolean field: '' for undefined, else its JSON text
toCommandValue(r, f) == IF Has(r, f) THEN stringify(r[f]) ELSE ""

(***************************************************************************)
(* Result Reporter: the log lines of lines 67-132.                         *)
(***************************************************************************)
summaryLog(r) ==
    << <<"info", "Validation completed with", IF IsTrue(r, "valid") THEN "success" ELSE "errors">>,
       <<"info", "Total events", SummaryCount(r, "totalEvents")>>,
       <<"info", "Valid events", SummaryCount(r, "validEvents")>>,
       <<"info", "Invalid events", SummaryCount(r, "invalidEvents")>>,
       <<"info", "Missing events", SummaryCount(r, "missingEvents")>>,
       <<"info", "New events", SummaryCount(r, "newEvents")>> >>
    \o (IF IsTrue(r, "trackingPlanUpdated")
        THEN << <<"info", "Tracking plan was automatically updated with new events">> >>
        ELSE <<>>)

locationLog(level, event) ==
    IF HasLocation(event)
    THEN LET impl == event.implementation[1] IN
         << <<level, "Location", impl.path, impl.line>> >>
         \o (IF Has(impl, "code") THEN << <<level, "Code", trim(impl.code)>> >> ELSE <<>>)
    ELSE <<>>

propertiesLog(level, label, event) ==
    IF HasProperties(event) THEN << <<level, label, event.properties>> >> ELSE <<>>

invalidEventLog(event, index) ==
    << <<"warning", "Event", index, event.name>> >>
    \o (IF Has(event, "message") THEN << <<"warning", "Error", event.message>> >> ELSE <<>>)
    \o locationLog("warning", event)
    \o propertiesLog("warning", "Required Properties", event)

missingEventLog(event, index) ==
    << <<"warning", "Event", index, event.name>> >>
    \o (IF Has(event, "message") THEN << <<"warning", "Note", event.message>> >> ELSE <<>>)
    \o propertiesLog("warning", "Required Properties", event)

newEventLog(event, index) ==
    << <<"info", "Event", index, event.name>> >>
    \o locationLog("info", event)
    \o propertiesLog("info", "Detected Properties", event)

section(level, header, events, Op(_, _)) ==
    IF Len(events) > 0
    THEN << <<level, header, Len(events)>> >> \o FlatMap(Op, events, 1)
    ELSE <<>>

eventsLog(r) ==
    section("warning", "INVALID EVENTS", filter(r, "invalid"), invalidEventLog)
    \o section("warning", "MISSING EVENTS", filter(r, "missing"), missingEventLog)
    \o section("info", "NEW EVENTS", filter(r, "new"), newEventLog)

(***************************************************************************)
(* Result Reporter: the outputs of lines 135-141.                          *)
(***************************************************************************)
OutputNames == {"valid", "total_events", "valid_events", "invalid_events",
                "missing_events", "new_events", "tracking_plan_updated"}

\* lines 135-141 with tracking_plan_updated set only when the plan was updated
setOutputsWhenUpdated(r) ==
    [valid |-> toCommandValue(r, "valid"),
     total_events |-> ToString(SummaryCount(r, "totalEvents")),
     valid_events |-> ToString(SummaryCount(r, "validEvents")),
     invalid_events |-> ToString(SummaryCount(r, "invalidEvents")),
     missing_events |-> ToString(SummaryCount(r, "missingEvents")),
     new_events |-> ToString(SummaryCount(r, "newEvents"))]
    @@ (IF IsTrue(r, "trackingPlanUpdated") THEN [tracking_plan_updated |-> "true"] ELSE NoFields)

setOutputs(r) ==
    [valid |-> toCommandValue(r, "valid"),
     total_events |-> ToString(SummaryCount(r, "totalEvents")),
     valid_events |-> ToString(SummaryCount(r, "validEvents")),
     invalid_events |-> ToString(SummaryCount(r, "invalidEvents")),
     missing_events |-> ToString(SummaryCount(r, "missingEvents")),
     new_events |-> ToString(SummaryCount(r, "newEvents")),
     tracking_plan_updated |-> stringify(IsTrue(r, "trackingPlanUpdated"))]

(***************************************************************************)
(* Terminal policy: the message of lines 150-163.                          *)
(***************************************************************************)
errorMessage(r) ==
    LET invalidCount == SummaryCount(r, "invalidEvents")
        missingCount == SummaryCount(r, "missingEvents")
    IN  << <<"Validation failed with", invalidCount, missingCount>> >>
        \o (IF invalidCount > 0
            THEN << <<"Invalid events", names(filter(r, "invalid"))>> >> ELSE <<>>)
        \o (IF missingCount > 0
            THEN << <<"Missing events", names(filter(r, "missing"))>> >> ELSE <<>>)
        \o << <<"See the detailed output above for specific issues and locations.">> >>

\* lines 149: !result.valid && failOnInvalid
ShouldFail(r, failOn) == ~IsTrue(r, "valid") /\ failOn

(***************************************************************************)
(* Review Publisher: the comment list of lines 190-228.                    *)
(***************************************************************************)
invalidComment(event, index) ==
    IF HasLocation(event)
    THEN LET impl == event.implementation[1] IN
         << [path |-> impl.path, line |-> impl.line,
             body |-> <<"Invalid Event", <<event.name>>,
                        IF Has(event, "message") THEN event.message
                        ELSE "Event does not match tracking plan",
                        "Required Properties",
                        IF Has(event, "properties") THEN event.properties
                        ELSE <<"None specified">> >>] >>
    ELSE <<>>

newComment(event, index) ==
    IF HasLocation(event)
    THEN LET impl == event.implementation[1] IN
         << [path |-> impl.path, line |-> impl.line,
             body |-> <<"New Event", <<event.name>>,
                        IF Has(event, "message") THEN event.message
                        ELSE "Event found in codebase but not in tracking plan",
                        "Properties",
                        IF Has(event, "properties") THEN event.properties
                        ELSE <<"None detected">> >>] >>
    ELSE <<>>

\* lines 220-228 with one README.md comment for each missing event
missingCommentPerEvent(events) ==
    [i \in 1..Len(events) |->
        [path |-> "README.md", line |-> 1,
         body |-> <<"Missing Events", <<events[i].name>>,
                    "Please implement these events or remove them from the tracking plan.">>]]

missingComment(events) ==
    IF Len(events) > 0
    THEN << [path |-> "README.md", line |-> 1,
             body |-> <<"Missing Events", names(events),
                        "Please implement these events or remove them from the tracking plan.">>] >>
    ELSE <<>>

buildReviewComments(r) ==
    FlatMap(invalidComment, filter(r, "invalid"), 1)
    \o FlatMap(newComment, filter(r, "new"), 1)
    \o missingComment(filter(r, "missing"))

\* lines 232-244
reviewBody(r) ==
    [totalEvents |-> SummaryCount(r, "totalEvents"),
     validEvents |-> SummaryCount(r, "validEvents"),
     invalidEvents |-> SummaryCount(r, "invalidEvents"),
     missingEvents |-> SummaryCount(r, "missingEvents"),
     newEvents |-> SummaryCount(r, "newEvents"),
     updated |-> IsTrue(r, "trackingPlanUpdated"),
     allMatch |-> IsTrue(r, "valid"),
     metadata |-> IF Has(r, "metadata") THEN r.metadata ELSE NoFields]

\* line 251 deciding on result.valid instead of the invalid count
reviewEventByValidity(r) == IF ~IsTrue(r, "valid") THEN "REQUEST_CHANGES" ELSE "COMMENT"

\* line 251: result.summary?.invalidEvents > 0 ? "REQUEST_CHANGES" : "COMMENT"
reviewEvent(r) ==
    IF Has(r, "summary") /\ Has(r.summary, "invalidEvents") /\ r.summary.invalidEvents > 0
    THEN "REQUEST_CHANGES" ELSE "COMMENT"

createReviewParams(r, comments) ==
    [owner |-> "owner", repo |-> "repo", pull_number |-> prDetails.prNumber,
     body |-> reviewBody(r), event |-> reviewEvent(r), comments |-> comments]


(***************************************************************************)
(* The run.                                                                *)
(***************************************************************************)
NoToken == "unread"

Init ==
    /\ pc = "inputs"
    /\ inputs \in Inputs
    /\ response = NoResponse
    /\ token = NoToken
    /\ log = <<>>
    /\ outputs = NoFields
    /\ calls = <<>>
    /\ reviewComments = <<>>
    /\ review = <<>>
    /\ failed = <<>>

\* the catch block of run(), lines 168-174
catch(message, lines) ==
    /\ failed' = Append(failed, << <<"Action failed", message>> >>)
    /\ log' = log \o lines
    /\ pc' = "done"

\* lines 170-173: the upstream status and body, when the error carries a response
responseLog(r) ==
    IF Has(r, "status")
    THEN << <<"error", "Response status", r.status>>, <<"error", "Response data", r.data>> >>
    ELSE <<>>

\* lines 7-45: read the inputs and the context, build the request
getInputs ==
    /\ pc = "inputs"
    /\ IF InputError(inputs) # ""
       THEN catch(InputError(inputs), <<>>)
       ELSE /\ pc' = "post"
            /\ UNCHANGED <<log, failed>>
    /\ UNCHANGED <<inputs, response, token, outputs, calls, reviewComments, review>>

\* lines 47-64: the validation POST and the check of its body
callValidation ==
    /\ pc = "post"
    /\ \E r \in Responses :
        LET called == << <<"info", "Calling validation endpoint", inputs.apiUrl>> >> IN
        /\ response' = r
        /\ calls' = Append(calls, [api |-> "validate", request |-> validationRequest,
                                   ok |-> r.outcome = "resolved"])
        /\ IF r.outcome = "rejected"
           THEN catch("Request failed", called \o responseLog(r))
           ELSE IF InvalidResponseFormat(r.data)
           THEN catch("Invalid response format from validation API", called)
           ELSE /\ pc' = "report"
                /\ log' = log \o called
                /\ UNCHANGED failed
    /\ UNCHANGED <<inputs, token, outputs, reviewComments, review>>

\* line 144: comment && context.payload.pull_request
reviewRequested == comment /\ inputs.pull_request

\* lines 66-141: log the result and set the outputs
reportResults ==
    /\ pc = "report"
    /\ IF FilterThrows(result)
       THEN /\ catch("Cannot read properties of null (reading 'status')", summaryLog(result))
            /\ UNCHANGED outputs
       ELSE /\ log' = log \o summaryLog(result) \o eventsLog(result)
            /\ outputs' = setOutputs(result)
            /\ pc' = IF reviewRequested THEN "review" ELSE "decide"
            /\ UNCHANGED failed
    /\ UNCHANGED <<inputs, response, token, calls, reviewComments, review>>

\* line 180 without the test
missingTokenIgnored(env) == FALSE

\* line 180: !token
missingToken(env) == env = ""

\* createReview resolves, or rejects with or without a response of the API
ReviewOutcomes ==
    {[outcome |-> "resolved"],
     [outcome |-> "rejected", data |-> [message |-> "Unprocessable Entity"]],
     [outcome |-> "rejected"]}

\* lines 260-265 rethrowing to the catch block of run()
reviewCatchEscalates(error) ==
    /\ log' = log \o << <<"warning", "Failed to add PR review comments">> >>
                  \o (IF Has(error, "data")
                      THEN << <<"error", "GitHub API response", error.data>> >> ELSE <<>>)
    /\ failed' = Append(failed, << <<"Action failed", "createReview failed">> >>)

\* the catch block of addPrReviewComments, lines 260-265
reviewCatch(error) ==
    /\ log' = log \o << <<"warning", "Failed to add PR review comments">> >>
                  \o (IF Has(error, "data")
                      THEN << <<"error", "GitHub API response", error.data>> >> ELSE <<>>)
    /\ UNCHANGED failed

\* lines 177-266, called at line 145
addPrReviewComments ==
    /\ pc = "review"
    /\ \E env \in {"", "ghs_token"} :
        /\ token' = env
        /\ IF missingToken(env)
           THEN /\ log' = Append(log, <<"warning", "GITHUB_TOKEN not available, skipping PR review comments">>)
                /\ UNCHANGED <<calls, reviewComments, review, failed>>
           ELSE LET comments == buildReviewComments(result) IN
                /\ reviewComments' = comments
                /\ IF Len(comments) > 0
                   THEN \E r \in ReviewOutcomes :
                        /\ calls' = Append(calls, [api |-> "createReview",
                                                   request |-> createReviewParams(result, comments),
                                                   ok |-> r.outcome = "resolved"])
                        /\ review' = Append(review, createReviewParams(result, comments))
                        /\ IF r.outcome = "resolved"
                           THEN /\ log' = Append(log, <<"info", "Created PR review with", Len(comments)>>)
                                /\ UNCHANGED failed
                           ELSE reviewCatch(r)
                   ELSE /\ log' = Append(log, <<"info", "No review comments to add">>)
                        /\ UNCHANGED <<calls, review, failed>>
    /\ pc' = "decide"
    /\ UNCHANGED <<inputs, response, outputs>>

\* lines 148-166: fail the run when the result is invalid and fail-on-invalid is set
failIfInvalid ==
    /\ pc = "decide"
    /\ failed' = IF ShouldFail(result, failOnInvalid)
                 THEN Append(failed, errorMessage(result)) ELSE failed
    /\ pc' = "done"
    /\ UNCHANGED <<inputs, response, token, log, outputs, calls, reviewComments, review>>

\* run(), line 5: its steps in program order
run == getInputs \/ callValidation \/ reportResults \/ addPrReviewComments \/ failIfInvalid

Next == run

Spec == Init /\ [][Next]_vars


(***************************************************************************)
(* Vocabulary of the properties.                                           *)
(***************************************************************************)
Done == pc = "done"
RunFailed == failed # <<>>

RequiredInputAbsent == inputs.apiKey = "" \/ inputs.trackingPlanId = ""
BooleanInputUnparseable ==
    \E raw \in {inputs.holistic, inputs.delta, inputs.autoUpdate, inputs.overwrite,
                inputs.comment, inputs.failOnInvalid} :
        raw \notin {"true", "True", "TRUE", "false", "False", "FALSE"}
InputCollectionFails == RequiredInputAbsent \/ BooleanInputUnparseable

PostFails == response.outcome = "rejected"
Resolved == response.outcome = "resolved"
NonNullObject(v) == v.js \in {"object", "array"}
ReturnedObject == Resolved /\ NonNullObject(response.data)

\* the returned object cannot be read by the Result Reporter: its events list
\* holds a null element
EventsUnreadable ==
    ReturnedObject /\ Has(result, "events")
    /\ \E i \in 1..Len(result.events) : result.events[i] = NullEvent
Readable == ReturnedObject /\ ~EventsUnreadable

\* result.valid is false or absent
Invalid == ReturnedObject /\ ~(Has(result, "valid") /\ result.valid = TRUE)
FailOnInvalidApplies == Invalid /\ inputs.failOnInvalid \in {"true", "True", "TRUE"}

AllOutputsSet == DOMAIN outputs = OutputNames
CreateReviewCalls == {i \in DOMAIN calls : calls[i].api = "createReview"}
Logged(level, text) == \E i \in DOMAIN log : log[i][1] = level /\ log[i][2] = text
FailedByPolicy == RunFailed /\ failed[1][1][1] = "Validation failed with"

events == IF Has(result, "events") THEN result.events ELSE <<>>
WithStatus(status) == {i \in DOMAIN events : events[i].status = status}
Located(status) ==
    {i \in WithStatus(status) :
        Has(events[i], "implementation") /\ Len(events[i].implementation) > 0}

\* the names a section of the failure message lists
Listed(message, title) ==
    UNION {{message[k][2][n] : n \in DOMAIN message[k][2]} :
           k \in {k \in DOMAIN message : message[k][1] = title}}

(***************************************************************************)
(* C1                                                                      *)
(***************************************************************************)
\* C1 as stated: a finished run is marked failed exactly when input collection
\* fails, the validation POST fails or returns a body that is not a non-null
\* object, or fail-on-invalid is true and the result is not valid.
C1_FailedExactlyForListedCauses ==
    Done => (RunFailed <=> (InputCollectionFails \/ PostFails
                            \/ (Resolved /\ ~NonNullObject(response.data))
                            \/ FailOnInvalidApplies))

\* C1 amended: a finished run is marked failed, by exactly one setFailed call,
\* exactly when input collection fails, the validation POST fails or returns a
\* body that is not a non-null object, the Result Reporter throws on a returned
\* object it cannot read, or fail-on-invalid is true and the result is not
\* valid.  A failed or skipped createReview is none of these causes.
C1_FailedExactlyForListedCausesOrUnreadable ==
    /\ Len(failed) <= 1
    /\ Done => (RunFailed <=> (InputCollectionFails \/ PostFails
                               \/ (Resolved /\ ~NonNullObject(response.data))
                               \/ EventsUnreadable
                               \/ FailOnInvalidApplies))

\* a finished run whose createReview call failed and that is not marked failed
C1_ReviewFailedRunSucceeded ==
    /\ Done /\ ~RunFailed
    /\ \E i \in CreateReviewCalls : ~calls[i].ok

C3_OutputsSetBeforeAndKept ==
    /\ []((pc \in {"review", "decide"} \/ token # NoToken \/ CreateReviewCalls # {}
           \/ FailedByPolicy) => AllOutputsSet)
    /\ [][AllOutputsSet => outputs' = outputs]_vars

\* a finished run marked failed by fail-on-invalid after a failed createReview,
\* with all outputs set
C3_FailedAfterOutputs ==
    /\ Done /\ FailedByPolicy /\ AllOutputsSet
    /\ \E i \in CreateReviewCalls : ~calls[i].ok

(***************************************************************************)
(* C4                                                                      *)
(***************************************************************************)
\* C4 as stated: for a returned non-null object (that the reporter can read), a
\* finished run has set exactly the seven outputs, each count output being the
\* summary field or 0 when absent, each boolean output being the payload field
\* or false when absent.
C4_OutputsWithDefaults ==
    Done /\ Readable =>
        /\ DOMAIN outputs = OutputNames
        /\ \A pair \in {<<"total_events", "totalEvents">>, <<"valid_events", "validEvents">>,
                        <<"invalid_events", "invalidEvents">>,
                        <<"missing_events", "missingEvents">>, <<"new_events", "newEvents">>} :
              outputs[pair[1]] =
                  IF Has(result, "summary") /\ Has(result.summary, pair[2])
                  THEN ToString(result.summary[pair[2]]) ELSE "0"
        /\ \A pair \in {<<"valid", "valid">>, <<"tracking_plan_updated", "trackingPlanUpdated">>} :
              outputs[pair[1]] =
                  IF Has(result, pair[2]) /\ result[pair[2]] THEN "true" ELSE "false"

(***************************************************************************)
(* C5                                                                      *)
(***************************************************************************)
\* C5: the outbound calls of a run are none, the validation POST, or the POST
\* followed by createReview; no call is made when input collection fails and a
\* finished run made none only then; createReview follows only a POST that
\* returned a success status and a non-null object.
C5_CallSequence ==
    /\ [i \in DOMAIN calls |-> calls[i].api]
          \in {<<>>, <<"validate">>, <<"validate", "createReview">>}
    /\ calls # <<>> => ~InputCollectionFails
    /\ Done /\ calls = <<>> => InputCollectionFails
    /\ CreateReviewCalls # {} => calls[1].ok /\ ReturnedObject /\ response.status = 200

\* a finished run that made both calls
C5_BothCalls == Done /\ Len(calls) = 2 /\ calls[2].api = "createReview"

(***************************************************************************)
(* C6                                                                      *)
(***************************************************************************)
\* C6: createReview is called only if comment is true, the trigger is a pull
\* request, GITHUB_TOKEN is present and the built comment list is non-empty; a
\* publisher invoked without a token logs a warning, makes no call and does not
\* mark the run failed.
C6_CreateReviewOnlyWhenAllHold ==
    /\ CreateReviewCalls # {} =>
          /\ inputs.comment \in {"true", "True", "TRUE"}
          /\ inputs.pull_request
          /\ token = "ghs_token"
          /\ Len(reviewComments) > 0
    /\ token = "" =>
          /\ CreateReviewCalls = {}
          /\ Logged("warning", "GITHUB_TOKEN not available, skipping PR review comments")
          /\ RunFailed => FailOnInvalidApplies

\* a finished run whose publisher found no token: no call, not failed
C6_NoTokenNoCall ==
    Done /\ token = "" /\ inputs.pull_request /\ CreateReviewCalls = {} /\ ~RunFailed

(***************************************************************************)
(* C7                                                                      *)
(***************************************************************************)
\* C7 as stated: when result.valid is false and fail-on-invalid is true, the
\* finished run is marked failed with a message that lists the name of every
\* event whose status is invalid and of every event whose status is missing.
C7_MessageListsEveryInvalidAndMissingName ==
    Done /\ Readable /\ Has(result, "valid") /\ ~result.valid /\ failOnInvalid =>
        /\ RunFailed
        /\ \A i \in WithStatus("invalid") : events[i].name \in Listed(failed[1], "Invalid events")
        /\ \A i \in WithStatus("missing") : events[i].name \in Listed(failed[1], "Missing events")

(***************************************************************************)
(* C8                                                                      *)
(***************************************************************************)
\* C8: when the POST returns a body that is not a non-null object the run ends
\* at once, marked failed: no validation-result line is logged, no output is
\* set, the Review Publisher is not invoked and no further call is made.
C8_MalformedBodyFailsBeforeProcessing ==
    Resolved /\ ~NonNullObject(response.data) =>
        /\ Done /\ RunFailed
        /\ DOMAIN outputs = {}
        /\ \A i \in DOMAIN log : log[i][2] # "Validation completed with"
        /\ token = NoToken /\ reviewComments = <<>> /\ review = <<>>
        /\ Len(calls) = 1

\* a finished run whose POST returned null
C8_NullBody == Done /\ Resolved /\ response.data.js = "null" /\ RunFailed

(***************************************************************************)
(* C9                                                                      *)
(***************************************************************************)
\* C9: the comment list built by the Review Publisher holds exactly one comment
\* for each invalid event and each new event that has a location, anchored at
\* the event's first location, none for other events, and exactly one comment
\* at README.md line 1 naming every missing event when there is one (none
\* otherwise).
C9_ReviewCommentList ==
    token = "ghs_token" =>
        LET inline(title, i) ==
                {k \in DOMAIN reviewComments :
                    /\ reviewComments[k].body[1] = title
                    /\ reviewComments[k].body[2] = <<events[i].name>>
                    /\ reviewComments[k].path = events[i].implementation[1].path
                    /\ reviewComments[k].line = events[i].implementation[1].line}
            aggregate == {k \in DOMAIN reviewComments : reviewComments[k].body[1] = "Missing Events"}
            missing == SelectSeq(events, LAMBDA e : e.status = "missing")
        IN  /\ \A i \in Located("invalid") : Cardinality(inline("Invalid Event", i)) = 1
            /\ \A i \in Located("new") : Cardinality(inline("New Event", i)) = 1
            /\ Cardinality(aggregate) = IF WithStatus("missing") = {} THEN 0 ELSE 1
            /\ \A k \in aggregate :
                  /\ reviewComments[k].path = "README.md" /\ reviewComments[k].line = 1
                  /\ reviewComments[k].body[2] = [n \in DOMAIN missing |-> missing[n].name]
            /\ Len(reviewComments) = Cardinality(Located("invalid")) + Cardinality(Located("new"))
                                     + Cardinality(aggregate)

\* the publisher has built the list for three missing events: one comment
\* naming the three
C9_ThreeMissingOneComment ==
    /\ token = "ghs_token" /\ Cardinality(WithStatus("missing")) = 3
    /\ Len(reviewComments) = 1 /\ Len(reviewComments[1].body[2]) = 3

(***************************************************************************)
(* C10                                                                     *)
(***************************************************************************)
\* C10: a submitted review is REQUEST_CHANGES when the invalid_events output is
\* above 0 and COMMENT otherwise; it is submitted by one createReview call that
\* carries the whole comment list and the summary body.
C10_ReviewDisposition ==
    review # <<>> =>
        /\ Len(review) = 1 /\ Cardinality(CreateReviewCalls) = 1
        /\ review[1].event = IF outputs.invalid_events # "0" THEN "REQUEST_CHANGES" ELSE "COMMENT"
        /\ review[1].comments = reviewComments /\ Len(reviewComments) > 0
        /\ review[1].body.invalidEvents = SummaryCount(result, "invalidEvents")
        /\ \A i \in CreateReviewCalls : calls[i].request = review[1]

\* a review submitted as REQUEST_CHANGES with several comments
C10_RequestChanges ==
    review # <<>> /\ review[1].event = "REQUEST_CHANGES" /\ Len(review[1].comments) >= 2

====
